---- MODULE Spec2Model ----
(***************************************************************************)
(* Model of covid_streetview.py: the NYTCovidData, StreetView and          *)
(* DailyDataManager objects, the __main__ pipeline that drives them, and   *)
(* the environment they touch (the NYT feed, the geocoder, the imagery     *)
(* download, the dailyData directory).                                     *)
(*                                                                         *)
(* Strings the program builds or edits (county and state names, the        *)
(* 'county,state' identifier, the zero-padded rank) are sequences of       *)
(* one-character strings, so that formatting and replace(" ","") are       *)
(* computed and not assumed.  A feed row keeps the columns the program     *)
(* reads for ranking, naming and new cases: date, county, state, cases     *)
(* (deaths goes through the same diff() as cases; fips is never read).     *)
(* getKey() and today() only read a key file and print; they touch none of *)
(* the state below and are left out of the pipeline.                       *)
(***************************************************************************)
EXTENDS Integers, Sequences, FiniteSets, TLC

\* ------------------------------------------------------------------ bounds
MaxRows == 3        \* rows of the feed
MaxDate == 2        \* dates of the feed are 1..MaxDate
MaxCases == 2       \* cumulative case counts are 1..MaxCases
MaxAgain == 2       \* calls made after __main__ has ended
MaxList == 2        \* a method that appends is not called again once its list holds this many
\* self.numCounties, the number of counties ranked: 20 in the source, scaled to the feed.
numCounties == 2

\* ------------------------------------------------- constants of the program
\* self.headings
headings == <<0, 120, 240>>
\* width of the rank in a file name: str(numLocations).zfill(3)
RankWidth == 3

\* ------------------------------------------------------------ environment
\* Counties of the feed: two of them share a county name, one has spaces.
Places ==
    { [county |-> <<"L", "e", "e">>, state |-> <<"N", " ", "Y">>],
      [county |-> <<"L", "e", "e">>, state |-> <<"T", "X">>],
      [county |-> <<"S", "t", " ", "C">>, state |-> <<"T", "X">>] }

Rows ==
    [date : 1..MaxDate, county : {p.county : p \in Places},
     state : {p.state : p \in Places}, cases : 1..MaxCases]

KeyOf(r) == <<r.date, r.county, r.state>>

\* The feed is a time series: rows in date order, one row per county and date.
IsFeed(f) ==
    /\ \A i \in 1..Len(f) : [county |-> f[i].county, state |-> f[i].state] \in Places
    /\ \A i, j \in 1..Len(f) : i < j => f[i].date <= f[j].date
    /\ \A i, j \in 1..Len(f) : i # j => KeyOf(f[i]) # KeyOf(f[j])

Feeds ==
    UNION { { f \in [1..n -> Rows] : IsFeed(f) } : n \in 1..MaxRows }

\* The answer of the geocoding service for an identifier it resolves.
Geocode(L) ==
    <<Len(SelectSeq(L, LAMBDA ch : ch # ",")), Len(L) + (IF L[1] = "L" THEN 0 ELSE 10)>>

\* ------------------------------------------------------------ pure helpers
Min(a, b) == IF a <= b THEN a ELSE b

RECURSIVE SeqMaxDate(_)
SeqMaxDate(s) ==
    IF Len(s) = 1 THEN s[1].date
    ELSE LET m == SeqMaxDate(Tail(s)) IN IF s[1].date >= m THEN s[1].date ELSE m

\* str(n) for n >= 0, as a sequence of digit characters.
Digit(d) == <<"0", "1", "2", "3", "4", "5", "6", "7", "8", "9">>[d + 1]

RECURSIVE Str(_)
Str(n) == IF n < 10 THEN <<Digit(n)>> ELSE Str(n \div 10) \o <<Digit(n % 10)>>

\* s.zfill(w)
RECURSIVE ZFill(_, _)
ZFill(s, w) == IF Len(s) >= w THEN s ELSE ZFill(<<"0">> \o s, w)

\* s.replace(" ", "")
StripSpaces(s) == SelectSeq(s, LAMBDA ch : ch # " ")

\* str(f'{county_},{state_}')
Location(row) == row.county \o <<",">> \o row.state

\* sort_values(by=['date','cases'], ascending=False): a comes before b.
Before(a, b) == a.date > b.date \/ (a.date = b.date /\ a.cases > b.cases)

\* x put after every row that does not come after it (ties keep table order).
Insert(s, x) ==
    LET firstAfter == { j \in 1..Len(s) : Before(x, s[j]) }
        at == IF firstAfter = {} THEN Len(s) + 1
              ELSE CHOOSE j \in firstAfter : \A k \in firstAfter : j <= k
    IN  SubSeq(s, 1, at - 1) \o <<x>> \o SubSeq(s, at, Len(s))

RECURSIVE SortDesc(_)
SortDesc(s) ==
    IF s = <<>> THEN <<>>
    ELSE Insert(SortDesc(SubSeq(s, 1, Len(s) - 1)), s[Len(s)])

\* Series.diff(): no value for the first row, then the step from the row before.
NoValue == <<>>
Diff(c) == [i \in 1..Len(c) |-> IF i = 1 THEN NoValue ELSE <<c[i] - c[i - 1]>>]

\* countydf[countydf['county']==c] with the newcases column added.
CountyFrame(df, c) ==
    LET g == SelectSeq(df, LAMBDA r : r.county = c)
        d == Diff([i \in 1..Len(g) |-> g[i].cases])
    IN  [i \in 1..Len(g) |-> [row |-> g[i], newcases |-> d[i]]]


\* ------------------------------------------------------------------ state
VARIABLES
    feed,           \* environment: the CSV the NYT URL serves
    baseExists,     \* environment: saveFolder exists and is writable
    dirExists,      \* filesystem: saveFolder/nameFolder exists
    files,          \* filesystem: image files, [dir, name]
    manifest,       \* filesystem: nameCSV in the day's folder, NoManifest if absent
    countydf,       \* NYTCovidData.countydf, NoTable for None
    countyupdated,  \* NYTCovidData._countyupdated
    processed,      \* NYTCovidData._processed
    sorted,         \* NYTCovidData._sorted
    countydict,     \* NYTCovidData.countydict
    topCounties,    \* NYTCovidData.topCounties
    topCases,       \* NYTCovidData.topCases
    locations,      \* StreetView.locations
    numImages,      \* StreetView.numImages
    numLocations,   \* StreetView.numLocations
    filename,       \* StreetView.filename, NoName for ''
    todayPath,      \* DailyDataManager.todayPath: "" or "today" (saveFolder/nameFolder)
    exc,            \* the exception the last call raised, "none" if it returned
    out,            \* what dateUpdate printed last
    issued,         \* the downloads the last execute requested, in order
    queried,        \* the identifiers the last makeLatLon sent to the geocoder
    last,           \* the method called last
    again,          \* how many calls were made after __main__ ended
    pc              \* position of __main__, or "session" when methods are called freely

envVars == <<feed, baseExists>>
fsVars == <<dirExists, files, manifest>>
covidVars == <<countydf, countyupdated, processed, sorted, countydict, topCounties, topCases>>
geoVars == <<locations, numImages, numLocations, filename>>
goVars == <<todayPath>>
obsVars == <<exc, out, issued, queried, last>>
vars == <<envVars, fsVars, covidVars, geoVars, goVars, obsVars, again, pc>>

NoTable == <<>>
NoDict == [c \in {} |-> <<>>]
NoName == [rank |-> <<>>, county |-> <<>>, lat |-> 0, lon |-> 0, heading |-> 0]
\* A file a run earlier the same day left in the day's folder.
PriorFile ==
    [dir |-> "today",
     name |-> [rank |-> <<"0", "0", "1">>, county |-> <<"o", "l", "d">>,
               lat |-> 0, lon |-> 0, heading |-> 0]]
Header == <<"rank", "cases", "county", "latLon">>
NoManifest == [header |-> <<>>, rows |-> <<>>]

\* The state after covid = NYTCovidData(); geo = StreetView(); go = DailyDataManager().
InitObjects ==
    /\ feed \in Feeds
    /\ baseExists \in BOOLEAN
    /\ dirExists \in (IF baseExists THEN BOOLEAN ELSE {FALSE})
    /\ files = (IF dirExists THEN {PriorFile} ELSE {})
    /\ manifest = NoManifest
    /\ countydf = NoTable
    /\ countyupdated = FALSE
    /\ processed = FALSE
    /\ sorted = FALSE
    /\ countydict = NoDict
    /\ topCounties = <<>>
    /\ topCases = <<>>
    /\ locations = <<>>
    /\ numImages = 0
    /\ numLocations = 1
    /\ filename = NoName
    /\ todayPath = ""
    /\ exc = "none"
    /\ out = [said |-> "nothing", date |-> 0]
    /\ issued = <<>>
    /\ queried = <<>>
    /\ last = "init"
    /\ again = 0

\* ------------------------------------------------------ NYTCovidData
\* requests.get either delivers the feed or raises; nothing is stored on a failure.
updateCounty ==
    /\ last' = "updateCounty"
    /\ \E delivered \in BOOLEAN :
        IF delivered
        THEN /\ countydf' = feed
             /\ countyupdated' = TRUE
             /\ exc' = "none"
        ELSE /\ UNCHANGED <<countydf, countyupdated>>
             /\ exc' = "ConnectionError"
    /\ UNCHANGED <<processed, sorted, countydict, topCounties, topCases>>
    /\ UNCHANGED <<envVars, fsVars, geoVars, goVars, out, issued, queried>>

\* countydf.iloc[-1]['date']
LastRowDate(df) == df[Len(df)].date

dateUpdate ==
    /\ last' = "dateUpdate"
    /\ exc' = "none"
    /\ out' = IF countyupdated
              THEN [said |-> "date", date |-> LastRowDate(countydf)]
              ELSE [said |-> "not updated", date |-> 0]
    /\ UNCHANGED <<envVars, fsVars, covidVars, geoVars, goVars, issued, queried>>

\* The dictionary process() builds when _countyupdated holds.
CountyDict(df) ==
    [c \in {df[i].county : i \in 1..Len(df)} |-> CountyFrame(df, c)]

process ==
    /\ last' = "process"
    /\ exc' = "none"
    /\ countydict' = IF countyupdated THEN CountyDict(countydf) ELSE NoDict
    /\ processed' = TRUE
    /\ UNCHANGED <<countydf, countyupdated, sorted, topCounties, topCases>>
    /\ UNCHANGED <<envVars, fsVars, geoVars, goVars, out, issued, queried>>

sortByCases ==
    /\ last' = "sortByCases"
    /\ IF processed
       THEN IF countydf = NoTable
            THEN /\ exc' = "AttributeError"
                 /\ UNCHANGED <<countydf, sorted>>
            ELSE /\ countydf' = SortDesc(countydf)
                 /\ sorted' = TRUE
                 /\ exc' = "none"
       ELSE /\ exc' = "none"
            /\ UNCHANGED <<countydf, sorted>>
    /\ UNCHANGED <<countyupdated, processed, countydict, topCounties, topCases>>
    /\ UNCHANGED <<envVars, fsVars, geoVars, goVars, out, issued, queried>>

\* The rows countydf.iloc[c] reads for c in range(n) before an IndexError, if any.
TopRows(df, n) == SubSeq(df, 1, Min(n, Len(df)))

TopCountiesOf(df, n) == [i \in 1..Len(TopRows(df, n)) |-> Location(TopRows(df, n)[i])]

TopCasesOf(df, n) == [i \in 1..Len(TopRows(df, n)) |-> TopRows(df, n)[i].cases]

getTopCounties ==
    /\ last' = "getTopCounties"
    /\ IF sorted
       THEN /\ topCounties' = topCounties \o TopCountiesOf(countydf, numCounties)
            /\ exc' = IF Len(countydf) < numCounties THEN "IndexError" ELSE "none"
       ELSE /\ exc' = "none"
            /\ UNCHANGED topCounties
    /\ UNCHANGED <<countydf, countyupdated, processed, sorted, countydict, topCases>>
    /\ UNCHANGED <<envVars, fsVars, geoVars, goVars, out, issued, queried>>

getTopCases ==
    /\ last' = "getTopCases"
    /\ IF sorted
       THEN /\ topCases' = topCases \o TopCasesOf(countydf, numCounties)
            /\ exc' = IF Len(countydf) < numCounties THEN "IndexError" ELSE "none"
       ELSE /\ exc' = "none"
            /\ UNCHANGED topCases
    /\ UNCHANGED <<countydf, countyupdated, processed, sorted, countydict, topCounties>>
    /\ UNCHANGED <<envVars, fsVars, geoVars, goVars, out, issued, queried>>


\* --------------------------------------------------------- StreetView
\* convertLocation = geolocator.geocode(L); latLon = (latitude, longitude) for the
\* identifiers before position stop; stop = 0 when every identifier resolves.
Resolved(ids, stop) ==
    [i \in 1..(IF stop = 0 THEN Len(ids) ELSE stop - 1) |-> Geocode(ids[i])]

\* The identifiers sent to the geocoder: up to and including the unresolved one.
Queried(ids, stop) == SubSeq(ids, 1, IF stop = 0 THEN Len(ids) ELSE stop)

\* geocode returns None for an identifier it cannot resolve, and None.latitude raises.
makeLatLon ==
    /\ last' = "makeLatLon"
    /\ \E stop \in 0..Len(topCounties) :
        /\ locations' = locations \o Resolved(topCounties, stop)
        /\ queried' = Queried(topCounties, stop)
        /\ exc' = IF stop = 0 THEN "none" ELSE "AttributeError"
    /\ UNCHANGED <<numImages, numLocations, filename>>
    /\ UNCHANGED <<envVars, fsVars, covidVars, goVars, out, issued>>

\* The loops of execute, flattened: request k is for the location at position
\* LocOf(k) (1-based) and the heading HeadOf(k).
Requests(locs) == Len(locs) * Len(headings)
LocOf(k) == ((k - 1) \div Len(headings)) + 1
HeadOf(k) == headings[((k - 1) % Len(headings)) + 1]

\* numLocations while request k is built, n0 being its value when execute starts.
NumLocationsAt(k, n0) == n0 + (LocOf(k) - 1)

\* "{0}_{1}_{2}_({3},{4},h{5}).jpg" without the run date, which never varies.
FileName(k, locs, tops, n0) ==
    [rank |-> ZFill(Str(NumLocationsAt(k, n0)), RankWidth),
     county |-> StripSpaces(tops[NumLocationsAt(k, n0)]),
     lat |-> locs[LocOf(k)][1],
     lon |-> locs[LocOf(k)][2],
     heading |-> HeadOf(k)]

Request(k, locs, tops, n0) == [pos |-> LocOf(k), name |-> FileName(k, locs, tops, n0)]

\* The first request whose covid.topCounties[numLocations-1] is out of range.
FirstIndexError(locs, tops, n0) ==
    LET bad == { k \in 1..Requests(locs) : NumLocationsAt(k, n0) > Len(tops) }
    IN  IF bad = {} THEN Requests(locs) + 1
        ELSE CHOOSE k \in bad : \A j \in bad : k <= j

\* os.path.join(saveFolder_, fileName_): the working directory when todayPath is ''.
SaveDir == IF todayPath = "" THEN "cwd" ELSE "today"
CanSave == todayPath = "" \/ dirExists

\* CountImages with the increment moved out of the heading loop.
CountImagesPerLocation(n, done) == n + (done \div Len(headings))

\* numImages += 1 after each download that returned.
CountImages(n, done) == n + done

\* fails = 0: every download returns; otherwise download number fails raises.
execute ==
    /\ last' = "execute"
    /\ LET n0 == numLocations
           total == Requests(locations)
           firstBad == FirstIndexError(locations, topCounties, n0)
       IN  \E fails \in 0..(firstBad - 1) :
            /\ (~CanSave /\ firstBad > 1) => fails = 1
            /\ LET done == IF fails = 0 THEN firstBad - 1 ELSE fails - 1
                   built == IF fails = 0 THEN firstBad - 1 ELSE fails
                   stopped == IF fails # 0 THEN fails
                              ELSE IF firstBad <= total THEN firstBad ELSE 0
               IN  /\ issued' = [k \in 1..built |-> Request(k, locations, topCounties, n0)]
                   /\ files' = files \cup
                        { [dir |-> SaveDir, name |-> FileName(k, locations, topCounties, n0)] :
                            k \in 1..done }
                   /\ numImages' = CountImages(numImages, done)
                   /\ numLocations' = IF stopped = 0 THEN n0 + Len(locations)
                                      ELSE n0 + (LocOf(stopped) - 1)
                   /\ filename' = IF built = 0 THEN filename
                                  ELSE FileName(built, locations, topCounties, n0)
                   /\ exc' = IF fails # 0 THEN (IF CanSave THEN "URLError" ELSE "FileNotFoundError")
                             ELSE IF firstBad <= total THEN "IndexError" ELSE "none"
    /\ UNCHANGED locations
    /\ UNCHANGED <<envVars, dirExists, manifest, covidVars, goVars, out, queried>>

\* ---------------------------------------------------- DailyDataManager
\* os.mkdir raises when the folder exists and when saveFolder is missing; both are
\* swallowed by "except Exception: pass".
MkdirSucceeds == baseExists /\ ~dirExists

createFolder ==
    /\ last' = "createFolder"
    /\ todayPath' = "today"
    /\ dirExists' = (dirExists \/ MkdirSucceeds)
    /\ exc' = "none"
    /\ UNCHANGED <<files, manifest>>
    /\ UNCHANGED <<envVars, covidVars, geoVars, out, issued, queried>>

\* ManifestRow writing idx where idx+1 belongs.
ManifestRowRankFromZero(i, tops, cases, locs) == <<i - 1, cases[i], tops[i], locs[i]>>

\* The data row enumerate(covid.topCounties) writes for idx = i - 1.
ManifestRow(i, tops, cases, locs) == <<i, cases[i], tops[i], locs[i]>>

\* The rows written before topCases[idx] or locations[idx] is out of range.
ManifestRows(tops, cases, locs) ==
    [i \in 1..Min(Len(tops), Min(Len(cases), Len(locs))) |-> ManifestRow(i, tops, cases, locs)]

\* createCSV taking each coordinate with geo.locations.pop(0) instead of indexing.
createCSVConsuming ==
    /\ last' = "createCSV"
    /\ IF todayPath = "" \/ ~dirExists
       THEN /\ exc' = "FileNotFoundError"
            /\ UNCHANGED <<manifest, locations>>
       ELSE /\ manifest' = [header |-> Header,
                            rows |-> ManifestRows(topCounties, topCases, locations)]
            /\ locations' = SubSeq(locations,
                                   Len(ManifestRows(topCounties, topCases, locations)) + 1,
                                   Len(locations))
            /\ exc' = IF Len(topCases) < Len(topCounties) \/ Len(locations) < Len(topCounties)
                      THEN "IndexError" ELSE "none"
    /\ UNCHANGED <<dirExists, files>>
    /\ UNCHANGED <<numImages, numLocations, filename>>
    /\ UNCHANGED <<envVars, covidVars, goVars, out, issued, queried>>

createCSV ==
    /\ last' = "createCSV"
    /\ IF todayPath = "" \/ ~dirExists
       THEN /\ exc' = "FileNotFoundError"
            /\ UNCHANGED manifest
       ELSE /\ manifest' = [header |-> Header,
                            rows |-> ManifestRows(topCounties, topCases, locations)]
            /\ exc' = IF Len(topCases) < Len(topCounties) \/ Len(locations) < Len(topCounties)
                      THEN "IndexError" ELSE "none"
    /\ UNCHANGED <<dirExists, files>>
    /\ UNCHANGED <<envVars, covidVars, geoVars, goVars, out, issued, queried>>

\* ------------------------------------------------------------ __main__
\* Advance with every exception swallowed.
AdvanceSwallowing(next) ==
    /\ pc' = next
    /\ UNCHANGED again

\* An exception no stage catches ends the script.
Advance(next) ==
    /\ pc' = IF exc' = "none" THEN next ELSE "aborted"
    /\ UNCHANGED again

MainUpdateCounty == pc = "updateCounty" /\ updateCounty /\ Advance("dateUpdate")
MainDateUpdate == pc = "dateUpdate" /\ dateUpdate /\ Advance("process")
MainProcess == pc = "process" /\ process /\ Advance("sortByCases")
MainSortByCases == pc = "sortByCases" /\ sortByCases /\ Advance("getTopCounties")
MainGetTopCounties == pc = "getTopCounties" /\ getTopCounties /\ Advance("getTopCases")
MainGetTopCases == pc = "getTopCases" /\ getTopCases /\ Advance("makeLatLon")
MainMakeLatLon == pc = "makeLatLon" /\ makeLatLon /\ Advance("createFolder")
MainCreateFolder == pc = "createFolder" /\ createFolder /\ Advance("createCSV")
MainCreateCSV == pc = "createCSV" /\ createCSV /\ Advance("execute")
MainExecute == pc = "execute" /\ execute /\ Advance("done")

Init == InitObjects /\ pc = "updateCounty"

Next ==
    \/ MainUpdateCounty
    \/ MainDateUpdate
    \/ MainProcess
    \/ MainSortByCases
    \/ MainGetTopCounties
    \/ MainGetTopCases
    \/ MainMakeLatLon
    \/ MainCreateFolder
    \/ MainCreateCSV
    \/ MainExecute

Spec == Init /\ [][Next]_vars


\* ------------------------------------------------- calls in any order
\* The NYTCovidData methods called in any order on a fresh object, as a test or
\* an interactive session does; an exception ends the call, not the session.
CallUpdateCounty == pc = "session" /\ updateCounty /\ UNCHANGED <<pc, again>>
CallDateUpdate == pc = "session" /\ dateUpdate /\ UNCHANGED <<pc, again>>
CallProcess == pc = "session" /\ process /\ UNCHANGED <<pc, again>>
CallSortByCases == pc = "session" /\ sortByCases /\ UNCHANGED <<pc, again>>
CallGetTopCounties ==
    pc = "session" /\ Len(topCounties) < MaxList /\ getTopCounties /\ UNCHANGED <<pc, again>>
CallGetTopCases ==
    pc = "session" /\ Len(topCases) < MaxList /\ getTopCases /\ UNCHANGED <<pc, again>>

InitCovid == InitObjects /\ pc = "session"

NextCovid ==
    \/ CallUpdateCounty
    \/ CallDateUpdate
    \/ CallProcess
    \/ CallSortByCases
    \/ CallGetTopCounties
    \/ CallGetTopCases

SpecCovid == InitCovid /\ [][NextCovid]_vars

\* The StreetView and DailyDataManager methods called again once __main__ has
\* ended, normally or by an exception (a retry in the same interpreter).
Ended == pc \in {"done", "aborted"}
Again == Ended /\ again < MaxAgain /\ again' = again + 1 /\ UNCHANGED pc
AgainMakeLatLon == Again /\ Len(locations) < MaxList /\ makeLatLon
AgainCreateFolder == Again /\ createFolder
AgainCreateCSV == Again /\ createCSV
AgainExecute == Again /\ execute

NextSession ==
    \/ Next
    \/ AgainMakeLatLon
    \/ AgainCreateFolder
    \/ AgainCreateCSV
    \/ AgainExecute

SpecSession == Init /\ [][NextSession]_vars


\* ================================================================ claims
RowsAtMaxDate(f) == Cardinality({ i \in 1..Len(f) : f[i].date = SeqMaxDate(f) })

\* C1: ranking raises no error, returns min(numCounties, rows at the latest date)
\* entries, and every entry comes from a row of the latest date.
C1_RankingSelectsLatestDate ==
    /\ last \in {"getTopCounties", "getTopCases"} => exc = "none"
    /\ last = "getTopCases" =>
        /\ Len(topCounties) = Min(numCounties, RowsAtMaxDate(feed))
        /\ Len(topCases) = Min(numCounties, RowsAtMaxDate(feed))
        /\ \A i \in 1..Len(topCounties) : countydf[i].date = SeqMaxDate(feed)

\* C2: the ranked case counts are in descending order and the manifest's ranks
\* are 1..len(output), one per entry.
C2_DescendingDenseRanks ==
    /\ (last = "getTopCases" /\ exc = "none") =>
        \A i \in 1..(Len(topCases) - 1) : topCases[i] >= topCases[i + 1]
    /\ (last = "createCSV" /\ exc = "none") =>
        /\ Len(manifest.rows) = Len(topCases)
        /\ \A i \in 1..Len(manifest.rows) : manifest.rows[i][1] = i

\* C3: once makeLatLon has returned, locations mirrors topCounties in length and
\* order; the manifest createCSV writes has one data row per ranked county, and row
\* i holds rank i, topCases[i], topCounties[i] and the geocode of topCounties[i].
C3_PositionalAlignment ==
    /\ (last = "makeLatLon" /\ exc = "none") =>
        /\ Len(locations) = Len(topCounties)
        /\ \A i \in 1..Len(topCounties) : locations[i] = Geocode(topCounties[i])
    /\ (last = "createCSV" /\ exc = "none") =>
        /\ manifest.header = Header
        /\ Len(manifest.rows) = Len(topCounties)
        /\ \A i \in 1..Len(topCounties) :
            /\ manifest.rows[i] = <<i, topCases[i], topCounties[i], locations[i]>>
            /\ manifest.rows[i][4] = Geocode(topCounties[i])

C3_Witness ==
    /\ last = "createCSV"
    /\ exc = "none"
    /\ Len(manifest.rows) = numCounties
    /\ topCounties[1] # topCounties[2]
    /\ topCases[1] # topCases[2]

\* C4: a run in which no download fails requests one image per ranked county and
\* heading, writes that many files, and ends with numImages = counties x 3.
C4_ImageCount ==
    pc = "done" =>
        /\ Len(headings) = 3
        /\ numImages = Len(topCounties) * Len(headings)
        /\ Len(issued) = Len(topCounties) * Len(headings)
        /\ Cardinality(files \ {PriorFile}) = Len(topCounties) * Len(headings)
        /\ \A i \in 1..Len(topCounties) : \A h \in 1..Len(headings) :
            Cardinality({ k \in 1..Len(issued) :
                issued[k].pos = i /\ issued[k].name.heading = headings[h] }) = 1

C4_Witness ==
    /\ pc = "done"
    /\ numImages = numCounties * 3
    /\ Len(topCounties) = numCounties

\* C5: a flag-guarded stage called with its prerequisite unmet returns without an
\* exception and changes nothing of the object, its own readiness flag included;
\* no stage raises or marks anything ready while no data was ever fetched.
Guarded == {"dateUpdate", "process", "sortByCases", "getTopCounties", "getTopCases"}
C5_ReadinessGuards ==
    [][ /\ (last' \in {"dateUpdate", "process"} /\ ~countyupdated) =>
            (exc' = "none" /\ UNCHANGED <<countyupdated, processed, sorted, topCounties, topCases>>)
        /\ (last' = "sortByCases" /\ ~processed) =>
            (exc' = "none" /\ UNCHANGED covidVars)
        /\ (last' \in {"getTopCounties", "getTopCases"} /\ ~sorted) =>
            (exc' = "none" /\ UNCHANGED covidVars)
        /\ (last' \in Guarded /\ countydf = NoTable) =>
            (exc' = "none" /\ UNCHANGED <<countyupdated, processed, sorted, topCounties, topCases>>)
      ]_vars

\* C6: when the geocoder does not resolve an identifier, nothing was downloaded,
\* the unresolved identifier is the last one sent to the geocoder, and the run
\* takes no further step.
GeocodeFailed == last = "makeLatLon" /\ exc # "none"
C6_GeocodeFailureAborts ==
    /\ [](GeocodeFailed =>
            /\ pc = "aborted"
            /\ issued = <<>>
            /\ numImages = 0
            /\ files \subseteq {PriorFile}
            /\ Len(queried) <= Len(topCounties)
            /\ queried = SubSeq(topCounties, 1, Len(queried))
            /\ Len(locations) = Len(queried) - 1)
    /\ [][~GeocodeFailed]_vars

C6_Witness ==
    /\ GeocodeFailed
    /\ Len(topCounties) = numCounties
    /\ Len(queried) = 1
    /\ locations = <<>>

\* C7: a call of createFolder after an earlier one returns normally, leaves the
\* day's folder existing, and leaves the folder's content as it was.
C7_CreateFolderIdempotent ==
    [][ (todayPath # "" /\ last' = "createFolder") =>
            /\ exc' = "none"
            /\ dirExists'
            /\ files' = files
            /\ manifest' = manifest
      ]_vars

\* C8: after process(), every county's stored new-cases value is null for its
\* first date and the step from its previous date for every later one.
PlaceRows(f, p) == SelectSeq(f, LAMBDA r : r.county = p.county /\ r.state = p.state)
StoredFor(p) == SelectSeq(countydict[p.county], LAMBDA e : e.row.state = p.state)
C8_DeltaCorrectness ==
    (processed /\ countyupdated) =>
        \A p \in Places :
            p.county \in DOMAIN countydict =>
                /\ Len(StoredFor(p)) = Len(PlaceRows(feed, p))
                /\ \A i \in 1..Len(StoredFor(p)) :
                    StoredFor(p)[i].newcases =
                        IF i = 1 THEN NoValue
                        ELSE <<PlaceRows(feed, p)[i].cases - PlaceRows(feed, p)[i - 1].cases>>

\* C9: whenever dateUpdate reports a date, it is the latest date of the table.
C9_ReportsLatestDate ==
    out.said = "date" => out.date = SeqMaxDate(feed)

\* C10: every download execute requests for the location at position i (from 1)
\* is named with the zero-padded rank i and the space-stripped topCounties[i].
C10_NamedByPosition ==
    \A k \in 1..Len(issued) :
        /\ issued[k].pos <= Len(topCounties)
        /\ issued[k].name.rank = ZFill(Str(issued[k].pos), RankWidth)
        /\ issued[k].name.county = StripSpaces(topCounties[issued[k].pos])


\* C11: once getTopCounties, getTopCases and makeLatLon have run, the calls of
\* createFolder, createCSV and execute leave topCounties, topCases and locations
\* as they were: same entries, same order, same length.
LaterStages == {"createFolder", "createCSV", "execute"}
C11_RankedListsFrozen ==
    [][ (pc \in LaterStages \/ (Ended /\ last' \in LaterStages)) =>
            /\ topCounties' = topCounties
            /\ topCases' = topCases
            /\ locations' = locations
      ]_vars

C11_Witness ==
    /\ pc = "done"
    /\ last = "execute"
    /\ Len(topCounties) = numCounties
    /\ Len(topCases) = numCounties
    /\ Len(locations) = numCounties
    /\ manifest.rows # <<>>
    /\ numImages > 0

====
